---------------------------- MODULE Spec2Model ----------------------------
(***************************************************************************)
(* Model of the telegram-gallery-bot pipeline orchestrator.                *)
(*                                                                         *)
(*   src/src/bot.js        TelegramBot: sessions, handlers, the two job    *)
(*                         handlers processSingleGallery and               *)
(*                         processMultiGallery, sendDownloadLink,          *)
(*                         moveToDownloads, the bot-level error handler    *)
(*   src/unnamed/part_000  ZipCreator (7z, single file): createArchive,    *)
(*                         createSingleGalleryZip, createMultiGalleryZip   *)
(*   src/src/downloaders/zipCreator.js                                     *)
(*                         ZipCreator (zip, volumes): getDirectorySize,    *)
(*                         createAndSplitIfNeeded, createZipWithCommand    *)
(*   src/README.md:540-682 PuppeteerScraper: launchBrowser, autoScroll,    *)
(*                         extractGalleryLinks                             *)
(*                                                                         *)
(* A job is one run of processSingleGallery / processMultiGallery.  Every  *)
(* await of the handler is one step of the job; the outcome of an external *)
(* call (Telegram, HTTP, filesystem, 7z, zip, puppeteer) is chosen by the  *)
(* environment: it returns or it throws.  Steps of different jobs and the  *)
(* user's button presses interleave at the awaits, as on the node event    *)
(* loop.                                                                   *)
(*                                                                         *)
(* Specifications:                                                         *)
(*   Spec, FairSpec  the bot with the 7z ZipCreator, MaxJobs jobs          *)
(*   BuildSpec       the bot with either ZipCreator                        *)
(*   ConcSpec        one more job, started while the first one runs        *)
(*   TextSpec        Spec, with the text handler's last input on record    *)
(*   LinksSpec       extractGalleryLinks applied to a list of elements     *)
(*   ArchiverSpec    the archivers applied to a source directory           *)
(*   CleanSpec, CleanFairSpec                                              *)
(*                   Spec with the hourly cleanup timer of index.js        *)
(*   RetrySpec       one call of retryWithBackoff                          *)
(*   UsersSpec       the userSessions map with MaxUsers users              *)
(*   CwdSpec         createZipWithCommand and the working directory        *)
(***************************************************************************)
EXTENDS Integers, Sequences, FiniteSets, TLC

(* ------------------------------ bounds -------------------------------- *)

\* number of jobs the user starts in one behaviour of Spec; a behaviour of
\* ConcSpec starts one more
MaxJobs == 1
\* number of URLs (image URLs, gallery links) the extractions of one
\* behaviour return, over all its jobs
MaxItems == 2
\* number of distinct archive file names (`${name}_${Date.now()}.7z`)
MaxNames == 2
\* autoScroll: how far, in scroll distances, the height of the document is
\* ahead of the distance scrolled
MaxAhead == 2
\* extractGalleryLinks on its own: number of elements the selector matches,
\* number of distinct pages their links lead to
MaxElems == 3
MaxTargets == 2
\* the archivers on their own: entries of the source directory, files of a
\* subdirectory
MaxEntries == 2
MaxDirFiles == 2
\* retryWithBackoff on its own: largest maxRetries (the default is 5), number
\* of values fn resolves with
MaxRetries == 5
MaxValues == 2
\* the session map on its own: number of users, and of jobs one user has in
\* progress at a time
MaxUsers == 2
MaxRunning == 2
\* the working directory on its own: calls of createZipWithCommand
MaxCalls == 4

Jobs == 1..(MaxJobs + 1)
Names == 1..MaxNames

(* --------------------------- bot.js: STATE ---------------------------- *)

STATE_IDLE == "idle"
STATE_WAITING_SINGLE_URL == "waiting_single_url"
STATE_WAITING_MULTI_URL == "waiting_multi_url"
STATE_PROCESSING == "processing"

SessionStates == {STATE_IDLE, STATE_WAITING_SINGLE_URL,
                  STATE_WAITING_MULTI_URL, STATE_PROCESSING}

VARIABLES
    session,    \* userSessions.get(userId).state of the user
    job,        \* job[j]: the locals and the position of job j (see NoJob)
    dirs,       \* the jobs whose scratch directory exists on disk
    scratch,    \* scratch[n]: the archive file named n in the scratch root
    downloads,  \* downloads[n]: the archive file named n in DOWNLOADS_DIR
    sameFs,     \* scratch root and DOWNLOADS_DIR lie on one filesystem
    builder,    \* the ZipCreator of the build: "7z" (part_000) or "zip"
                \* (downloaders/zipCreator.js)
    lab         \* the input and the result of a function applied on its
                \* own (see the specifications of the pure functions)

vars == <<session, job, dirs, scratch, downloads, sameFs, builder, lab>>

FileStates == {"none", "partial", "full"}

\* the files of a zip archive: one file, or several volumes
VolumeCounts == {1, 2}

\* the two versions of the ZipCreator class in the sources
Builders == {"7z", "zip"}

\* no function is being applied on its own
NoLab == [k |-> "none"]

\* A job that has not started.  pc is the await the handler is at; tempDir
\* and archivePath are the handler's locals declared before the try (FALSE /
\* 0: undefined); found .. outcome are those declared inside the try; the
\* other fields record what the job has done so far.
NoJob ==
    [pc |-> "idle", mode |-> "none",
     tempDir |-> FALSE, archivePath |-> 0,
     failed |-> FALSE,        \* an exception reached the handler's own level
     found |-> 0,             \* imageUrls.length (single mode)
     success |-> 0,           \* downloadResult.success (single mode)
     imgs |-> << >>,          \* the running download: imgs[i] is whether
                              \* attempt i succeeded
     editRejected |-> FALSE,  \* a progress edit of the running download failed
     links |-> 0,             \* galleryLinks.length (multi mode)
     idx |-> 0,               \* loop variable i of the extraction loop
     galleries |-> << >>,     \* the galleries array, as indices of links
     outcome |-> << >>,       \* outcome[i]: extraction of link i succeeded
     browserOpen |-> FALSE,   \* a launched browser that has not been closed
     launches |-> 0,          \* successful puppeteer.launch calls
     closes |-> 0,            \* browser.close calls
     glErr |-> FALSE,         \* an exception was thrown in extractGalleryLinks
     ahead |-> 0,             \* autoScroll: (scrollHeight - totalHeight) / distance
     odd |-> FALSE,           \* autoScroll: totalHeight / distance is odd
     wrote |-> 0,             \* file name the archiver wrote to (0: none)
     vols |-> 0,              \* files the archiver returned: none, 1, several
     moved |-> "no",          \* moveToDownloads: "no" | "ok" | "exdev" | "error"
     linkSent |-> FALSE,      \* the download-link message was sent
     errSent |-> FALSE,       \* the error message was shown
     empty |-> FALSE,         \* an extraction returned an empty list
     dl |-> "no"]             \* the downloader: not invoked ("no"), "threw",
                              \* returned no success ("zero"), returned "some"

(* ------------------- control flow of the job handlers ------------------ *)

\* processSingleGallery: its awaits in program order
SinglePath ==
    <<"reply0", "editExtract", "extractImages", "editFound", "createTempDir",
      "download", "editArchive", "archive", "editLink", "statSync", "rename",
      "replyLink", "deleteMsg", "deleteDir", "setIdle", "replyReady", "done">>

\* processMultiGallery: its awaits in program order; the gl* steps are the
\* body of PuppeteerScraper.extractGalleryLinks
MultiPath ==
    <<"reply0", "editOpen", "glLaunch", "glNewPage", "glSetUA", "glGoto",
      "glScroll", "glEval", "glResolve", "glFinally", "editFoundG",
      "extractLoop", "editComplete", "createTempDir", "downloadMulti",
      "editArchive", "archive", "editLink", "statSync", "rename",
      "replyLink", "deleteMsg", "deleteDir", "setIdle", "replyReady", "done">>

\* the catch block of either handler
CatchPath ==
    <<"catchEdit", "catchDeleteDir", "catchDeleteFile", "catchIdle", "done">>

\* bot.catch
BotCatchPath == <<"botCatch", "done">>

InPath(path, p) == \E i \in 1..Len(path) : path[i] = p

After(path, p) == path[(CHOOSE i \in 1..Len(path) : path[i] = p) + 1]

\* where the handler is after the await at p completed normally
NextPc(m, p) ==
    IF InPath(CatchPath, p) THEN After(CatchPath, p)
    ELSE IF InPath(BotCatchPath, p) THEN After(BotCatchPath, p)
    ELSE IF m = "single" THEN After(SinglePath, p)
    ELSE After(MultiPath, p)

\* HandlerOf with the exception of the downloader swallowed: the handler
\* goes on with the archive
HandlerOf_SwallowDownload(p) ==
    IF p \in {"reply0", "catchEdit"} THEN "botCatch"
    ELSE IF p \in {"download", "downloadMulti"} THEN "editArchive"
    ELSE "catchEdit"

\* where an exception thrown at p is handled: the first reply is outside the
\* try, and an exception of the catch block leaves the handler; both reach
\* the middleware chain's error handler, bot.catch
HandlerOf(p) ==
    IF p \in {"reply0", "catchEdit"} THEN "botCatch" ELSE "catchEdit"

Ok(r) == [r EXCEPT !.pc = NextPc(r.mode, r.pc)]

\* an exception at r.pc: control is in the handler of the exception, where
\* the locals declared inside the try block are out of scope
Thrown(r) ==
    [r EXCEPT !.pc = HandlerOf(r.pc), !.failed = TRUE,
              !.found = 0, !.success = 0, !.links = 0, !.idx = 0,
              !.galleries = << >>, !.outcome = << >>, !.imgs = << >>]

At(j, p) == job[j].pc = p

Set(j, r) == job' = [job EXCEPT ![j] = r]

\* URLs extracted so far, over all jobs
RECURSIVE ItemsOf(_)
ItemsOf(S) ==
    IF S = {} THEN 0
    ELSE LET j == CHOOSE k \in S : TRUE
         IN job[j].found + job[j].links + ItemsOf(S \ {j})

ItemsLeft == MaxItems - ItemsOf(Jobs)

\* archive names are interchangeable: a job's archive gets a name some job
\* used before it (same name, same millisecond) or the first unused one
UsedNames == {job[j].wrote : j \in Jobs} \cup {job[j].archivePath : j \in Jobs}

NameChoices == {n \in Names : n = 1 \/ (n - 1) \in UsedNames}

(* ------------------------------ Init ----------------------------------- *)

\* the state after construction, the ZipCreator of the build being one of bs
InitOf(bs) ==
    /\ session = STATE_IDLE
    /\ job = [j \in Jobs |-> NoJob]
    /\ dirs = {}
    /\ scratch = [n \in Names |-> "none"]
    /\ downloads = [n \in Names |-> "none"]
    /\ sameFs \in BOOLEAN
    /\ builder \in bs

\* bot.js is written for the 7z ZipCreator: it uses what the archiver
\* returns as one path
Init == InitOf({"7z"}) /\ lab = NoLab

\* either ZipCreator
BuildInit == InitOf(Builders) /\ lab = NoLab

(* ------------------ bot.js: setupHandlers (the user) ------------------- *)

\* number of jobs started so far; job started + 1 is the next to start
started == Cardinality({j \in Jobs : job[j].pc # "idle"})

\* bot.start
Start ==
    /\ session' = STATE_IDLE
    /\ UNCHANGED <<job, dirs, scratch, downloads, sameFs, builder, lab>>

\* bot.hears('Single Gallery')
HearsSingle ==
    /\ session' = STATE_WAITING_SINGLE_URL
    /\ UNCHANGED <<job, dirs, scratch, downloads, sameFs, builder, lab>>

\* bot.hears('Multi Gallery')
HearsMulti ==
    /\ session' = STATE_WAITING_MULTI_URL
    /\ UNCHANGED <<job, dirs, scratch, downloads, sameFs, builder, lab>>

\* RestartEffect of a Restart that ends the running jobs
RestartEffect_Abort(jb) ==
    [j \in Jobs |-> IF jb[j].pc \in {"idle", "done"} THEN jb[j]
                    ELSE [jb[j] EXCEPT !.pc = "done"]]

\* what the Restart handler does to the jobs: it has no reference to them
RestartEffect(jb) == jb

\* bot.hears('Restart')
HearsRestart ==
    /\ session' = STATE_IDLE
    /\ job' = RestartEffect(job)
    /\ UNCHANGED <<dirs, scratch, downloads, sameFs, builder, lab>>

\* what the text handler is given: text not starting with 'http', a URL of
\* an unsupported site, a URL of a supported site
UrlKinds == {"nohttp", "unsupported", "supported"}

\* the mode the text handler dispatches to in session state s
ModeOf(s) == IF s = STATE_WAITING_SINGLE_URL THEN "single" ELSE "multi"

\* Waiting of a handler that only ignores texts sent during a job
Waiting_NotProcessing(s) == s # STATE_PROCESSING

\* the text handler goes on: the session waits for a URL
Waiting(s) == s \in {STATE_WAITING_SINGLE_URL, STATE_WAITING_MULTI_URL}

\* RejectText of a handler that sends the user back to the menu
RejectText_Resets(s) == STATE_IDLE

\* the session state after the text handler rejected the text: the handler
\* replies and returns
RejectText(s) == s

\* bot.on('text'), up to the first await of the job handler it calls: the
\* handler returns early unless the session waits for a URL and the URL is
\* valid and supported; otherwise processSingleGallery / processMultiGallery
\* starts and sets the session to PROCESSING before its first await.  At
\* most max jobs are started.
TextHandler(url, max) ==
    IF Waiting(session) /\ url = "supported"
    THEN /\ started < max
         /\ session' = STATE_PROCESSING
         /\ job' = [job EXCEPT ![started + 1] =
                        [NoJob EXCEPT !.pc = "reply0", !.mode = ModeOf(session)]]
         /\ UNCHANGED <<dirs, scratch, downloads, sameFs, builder>>
    ELSE /\ session' = IF Waiting(session) THEN RejectText(session)
                       ELSE session
         /\ UNCHANGED <<job, dirs, scratch, downloads, sameFs, builder>>

OnText(url) == TextHandler(url, MaxJobs) /\ UNCHANGED lab

\* OnText in a behaviour with one more job
OnTextConc(url) == TextHandler(url, MaxJobs + 1) /\ UNCHANGED lab

\* OnText with the text it was given on record; odd: the number of texts
\* handled so far is odd
OnTextSeen(url) ==
    /\ TextHandler(url, MaxJobs)
    /\ lab' = [k |-> "text", url |-> url,
               odd |-> IF lab.k = "text" THEN ~lab.odd ELSE TRUE]

(* ------------------------- utils/fileManager --------------------------- *)

\* FileManager.deleteDir(path): removes the directory; never throws
deleteDir(ds, j) == ds \ {j}

\* FileManager.deleteFile(path): removes the file at that path, if any
deleteFile(files, n) == [files EXCEPT ![n] = "none"]

(* --------------------- steps shared by both handlers ------------------- *)

\* awaits of a Telegram call whose only effect is on the chat: the first
\* reply, the status-message edits at the stage boundaries, the final reply
TelegramPcs ==
    {"reply0", "editExtract", "editFound", "editOpen", "editFoundG",
     "editComplete", "editArchive", "editLink", "replyReady"}

TelegramCall(j) ==
    /\ job[j].pc \in TelegramPcs
    /\ \/ Set(j, Ok(job[j]))
       \/ Set(j, Thrown(job[j]))
    /\ UNCHANGED <<session, dirs, scratch, downloads, sameFs, builder, lab>>

\* FileManager.createTempDir: a fresh directory of this job, or an exception
CreateTempDir(j) ==
    /\ At(j, "createTempDir")
    /\ \/ /\ Set(j, Ok([job[j] EXCEPT !.tempDir = TRUE]))
          /\ dirs' = dirs \cup {j}
       \/ /\ Set(j, Thrown(job[j]))
          /\ UNCHANGED dirs
    /\ UNCHANGED <<session, scratch, downloads, sameFs, builder, lab>>

\* the command exited normally and the archiver finds k output files named
\* n: createArchive (7z) returns the path if fs.existsSync finds the file and
\* throws 'Archive file was not created' otherwise; createZipWithCommand
\* (zip) returns the list of the files fs.existsSync finds, whatever its
\* length.  The handler assigns archivePath when the archiver returns.
Created(b, r, n, k) ==
    IF b = "7z" /\ k = 0 THEN Thrown(r)
    ELSE Ok([r EXCEPT !.archivePath = n, !.vols = k])

\* ZipCreator.createSingleGalleryZip / createMultiGalleryZip -> createArchive
\* (7z) or createAndSplitIfNeeded -> createZipWithCommand (zip): the archive
\* is named n (name and Date.now()) and lies in the scratch root, beside the
\* scratch directory; a multi-volume zip archive is k files n.zip, n.z01,
\* ...; scratch[n] stands for all of them.  execSync returns or throws, and
\* has written the whole archive, part of it or nothing.
Archive(j) ==
    /\ At(j, "archive")
    /\ \E n \in NameChoices :
        \/ \* the command succeeded and wrote k files
           /\ scratch' = [scratch EXCEPT ![n] = "full"]
           /\ \E k \in (IF builder = "zip" THEN VolumeCounts ELSE {1}) :
                Set(j, Created(builder, [job[j] EXCEPT !.wrote = n], n, k))
        \/ \* the command exited normally and wrote nothing
           /\ UNCHANGED scratch
           /\ Set(j, Created(builder, job[j], n,
                             IF scratch[n] # "none" THEN 1 ELSE 0))
        \/ \* the command exited abnormally before writing
           /\ UNCHANGED scratch
           /\ Set(j, Thrown(job[j]))
        \/ \* the command exited abnormally after writing some or all
           /\ \E st \in {"partial", "full"} :
                scratch' = [scratch EXCEPT ![n] = st]
           /\ Set(j, Thrown([job[j] EXCEPT !.wrote = n]))
    /\ UNCHANGED <<session, dirs, downloads, sameFs, builder, lab>>

\* what sendDownloadLink is handed as archivePath is a path: the 7z
\* archiver returns a string, the zip archiver an array of strings
IsPath(b) == b = "7z"

\* sendDownloadLink: fs.statSync(archivePath) throws when the file is missing
\* and when archivePath is not a path
StatSync(j) ==
    /\ At(j, "statSync")
    /\ IF ~IsPath(builder) \/ scratch[job[j].archivePath] = "none"
       THEN Set(j, Thrown(job[j]))
       ELSE Set(j, Ok(job[j]))
    /\ UNCHANGED <<session, dirs, scratch, downloads, sameFs, builder, lab>>

\* fs.promises.rename(filePath, destPath) moves the file only within one
\* filesystem; across filesystems it fails with EXDEV
RenameCrossesDevice(fs) == ~fs

\* MoveFailed of a moveToDownloads that logs the exception and returns
MoveFailed_Swallowed(r, why) == Ok([r EXCEPT !.moved = why])

\* moveToDownloads, catch: the exception of the rename is logged and
\* rethrown; sendDownloadLink does not catch it
MoveFailed(r, why) == Thrown([r EXCEPT !.moved = why])

\* moveToDownloads: one rename
Rename(j) ==
    /\ At(j, "rename")
    /\ LET n == job[j].archivePath IN
        \/ /\ RenameCrossesDevice(sameFs)
           /\ Set(j, MoveFailed(job[j], "exdev"))
           /\ UNCHANGED <<scratch, downloads>>
        \/ /\ ~RenameCrossesDevice(sameFs)
           /\ scratch[n] # "none"
           /\ downloads' = [downloads EXCEPT ![n] = scratch[n]]
           /\ scratch' = [scratch EXCEPT ![n] = "none"]
           /\ Set(j, Ok([job[j] EXCEPT !.moved = "ok"]))
        \/ \* ENOENT, EACCES, ...
           /\ ~RenameCrossesDevice(sameFs)
           /\ Set(j, MoveFailed(job[j], "error"))
           /\ UNCHANGED <<scratch, downloads>>
    /\ UNCHANGED <<session, dirs, sameFs, builder, lab>>

\* sendDownloadLink: the download-link reply, inside retryWithBackoff
ReplyLink(j) ==
    /\ At(j, "replyLink")
    /\ \/ Set(j, Ok([job[j] EXCEPT !.linkSent = TRUE]))
       \/ Set(j, Thrown(job[j]))
    /\ UNCHANGED <<session, dirs, scratch, downloads, sameFs, builder, lab>>

\* deleteMessage(...).catch(() => {}): its failure is swallowed
DeleteMsg(j) ==
    /\ At(j, "deleteMsg")
    /\ Set(j, Ok(job[j]))
    /\ UNCHANGED <<session, dirs, scratch, downloads, sameFs, builder, lab>>

\* await FileManager.deleteDir(tempDir) on the success path
DeleteDir(j) ==
    /\ At(j, "deleteDir")
    /\ dirs' = deleteDir(dirs, j)
    /\ Set(j, Ok(job[j]))
    /\ UNCHANGED <<session, scratch, downloads, sameFs, builder, lab>>

\* session.state = STATE.IDLE on the success path
SetIdle(j) ==
    /\ At(j, "setIdle")
    /\ session' = STATE_IDLE
    /\ Set(j, Ok(job[j]))
    /\ UNCHANGED <<dirs, scratch, downloads, sameFs, builder, lab>>

(* ------------------------ the catch block ------------------------------ *)

\* the error message: an awaited edit of the status message, not guarded
CatchEdit(j) ==
    /\ At(j, "catchEdit")
    /\ \/ Set(j, Ok([job[j] EXCEPT !.errSent = TRUE]))
       \/ Set(j, Thrown(job[j]))
    /\ UNCHANGED <<session, dirs, scratch, downloads, sameFs, builder, lab>>

\* if (tempDir) await FileManager.deleteDir(tempDir)
CatchDeleteDir(j) ==
    /\ At(j, "catchDeleteDir")
    /\ dirs' = IF job[j].tempDir THEN deleteDir(dirs, j) ELSE dirs
    /\ Set(j, Ok(job[j]))
    /\ UNCHANGED <<session, scratch, downloads, sameFs, builder, lab>>

\* CatchDeleteFile that deletes the archive wherever it is now
CatchDeleteFile_Published(j) ==
    /\ At(j, "catchDeleteFile")
    /\ LET n == job[j].archivePath IN
        /\ scratch' = IF n # 0 THEN deleteFile(scratch, n) ELSE scratch
        /\ downloads' = IF n # 0 THEN deleteFile(downloads, n) ELSE downloads
    /\ Set(j, Ok(job[j]))
    /\ UNCHANGED <<session, dirs, sameFs, builder, lab>>

\* if (archivePath) await FileManager.deleteFile(archivePath).catch(...):
\* archivePath is the path in the scratch root; handed an array, deleteFile
\* has no file to remove
CatchDeleteFile(j) ==
    /\ At(j, "catchDeleteFile")
    /\ scratch' = IF job[j].archivePath # 0 /\ IsPath(builder)
                  THEN deleteFile(scratch, job[j].archivePath)
                  ELSE scratch
    /\ Set(j, Ok(job[j]))
    /\ UNCHANGED <<session, dirs, downloads, sameFs, builder, lab>>

\* session.state = STATE.IDLE at the end of the catch block
CatchIdle(j) ==
    /\ At(j, "catchIdle")
    /\ session' = STATE_IDLE
    /\ Set(j, Ok(job[j]))
    /\ UNCHANGED <<dirs, scratch, downloads, sameFs, builder, lab>>

\* BotCatchState of an error handler that only logs and replies
BotCatchState_Keep(s) == s

\* the state bot.catch leaves the session in
BotCatchState(s) == STATE_IDLE

\* bot.catch: an exception that left the handler; the reply is not awaited
BotCatch(j) ==
    /\ At(j, "botCatch")
    /\ session' = BotCatchState(session)
    /\ Set(j, Ok(job[j]))
    /\ UNCHANGED <<dirs, scratch, downloads, sameFs, builder, lab>>

(* ---------------------- processSingleGallery ---------------------------- *)

\* CheckNonEmpty with the check left out
CheckNonEmpty_Missing(r, n) == Ok(r)

\* if (imageUrls.length === 0) throw ..., if (galleryLinks.length === 0)
\* throw ...: r is the job after an extraction that returned n URLs
CheckNonEmpty(r, n) == IF n = 0 THEN Thrown(r) ELSE Ok(r)

\* JsdomScraper.extractImages and the check for an empty result
ExtractImages(j) ==
    /\ At(j, "extractImages")
    /\ \/ \E n \in 0..ItemsLeft :
            Set(j, CheckNonEmpty([job[j] EXCEPT !.found = n,
                                                !.empty = (n = 0)], n))
       \/ Set(j, Thrown(job[j]))
    /\ UNCHANGED <<session, dirs, scratch, downloads, sameFs, builder, lab>>

\* the progress callback of processSingleGallery edits the status message
\* after every fifth attempt and after the last one
ShouldReport(cur, total) == cur % 5 = 0 \/ cur = total

\* ProgressEditRejected of an edit whose rejection reaches the downloader
ProgressEditRejected_Propagates(r) == Thrown([r EXCEPT !.editRejected = TRUE])

\* editMessageText(...).catch(() => {}) in both progress callbacks: the edit
\* is not awaited and its rejection is swallowed
ProgressEditRejected(r) == [r EXCEPT !.editRejected = TRUE]

\* the running totals: number of successful attempts
SuccessCount(o) == Cardinality({i \in 1..Len(o) : o[i]})

\* the end of a download: the downloader and its callback are gone
Downloaded(r) == [r EXCEPT !.imgs = << >>, !.editRejected = FALSE]

\* ImageDownloader.downloadImages with the progress callback, one attempt a
\* step, and the check for zero successes when it has returned
Download(j) ==
    /\ At(j, "download")
    /\ LET r == job[j] IN
        \/ /\ Len(r.imgs) < r.found
           /\ \E ok, editOk \in BOOLEAN :
                LET r1 == [r EXCEPT !.imgs = Append(@, ok)] IN
                Set(j, IF ShouldReport(Len(r1.imgs), r.found) /\ ~editOk
                       THEN ProgressEditRejected(r1)
                       ELSE r1)
        \/ /\ Len(r.imgs) = r.found
           /\ LET s == SuccessCount(r.imgs)
                  r1 == [Downloaded(r) EXCEPT
                            !.success = s,
                            !.dl = IF s = 0 THEN "zero" ELSE "some"]
              IN IF s = 0 THEN Set(j, Thrown(r1)) ELSE Set(j, Ok(r1))
        \/ Set(j, Thrown([Downloaded(r) EXCEPT !.dl = "threw"]))
    /\ UNCHANGED <<session, dirs, scratch, downloads, sameFs, builder, lab>>

(* ------------- PuppeteerScraper.extractGalleryLinks (README.md) -------- *)

GlPcs == {"glLaunch", "glNewPage", "glSetUA", "glGoto", "glScroll", "glEval",
          "glResolve", "glFinally"}

\* an exception inside the try of extractGalleryLinks: logged and rethrown by
\* its catch, after the finally block has run
GlThrown(r) == [r EXCEPT !.pc = "glFinally", !.glErr = TRUE]

\* launchBrowser: puppeteer.launch; on failure `browser` stays undefined
GlLaunch(j) ==
    /\ At(j, "glLaunch")
    /\ \/ Set(j, Ok([job[j] EXCEPT !.browserOpen = TRUE, !.launches = @ + 1]))
       \/ Set(j, GlThrown(job[j]))
    /\ UNCHANGED <<session, dirs, scratch, downloads, sameFs, builder, lab>>

\* browser.newPage, page.setUserAgent, page.goto (60 s timeout)
GlPage(j) ==
    /\ job[j].pc \in {"glNewPage", "glSetUA", "glGoto"}
    /\ \/ Set(j, Ok(job[j]))
       \/ Set(j, GlThrown(job[j]))
    /\ UNCHANGED <<session, dirs, scratch, downloads, sameFs, builder, lab>>

\* autoScroll, the test of the interval callback: totalHeight >= scrollHeight
\* with a the document height less the distance scrolled, in distances
ScrollResolves(a) == a <= 0

\* autoScroll.  One firing of the interval timer: the document has grown by g
\* distances since the last one, the callback reads its height, scrolls by
\* one distance and resolves when it has scrolled the whole height; there
\* is no other exit from the timer.  page.evaluate and page.waitForTimeout
\* may reject: autoScroll catches and logs that, and returns.
GlScroll(j) ==
    /\ At(j, "glScroll")
    /\ LET r == job[j]
           left == [r EXCEPT !.ahead = 0, !.odd = FALSE]
       IN \/ \E g \in 0..(MaxAhead - r.ahead) :
                LET a == r.ahead + g - 1 IN
                IF ScrollResolves(a) THEN Set(j, Ok(left))
                ELSE Set(j, [r EXCEPT !.ahead = a, !.odd = ~r.odd])
          \/ Set(j, Ok(left))
    /\ UNCHANGED <<session, dirs, scratch, downloads, sameFs, builder, lab>>

\* page.$$eval of the strategy's selector
GlEval(j) ==
    /\ At(j, "glEval")
    /\ \/ \E n \in 0..ItemsLeft : Set(j, Ok([job[j] EXCEPT !.links = n]))
       \/ Set(j, GlThrown(job[j]))
    /\ UNCHANGED <<session, dirs, scratch, downloads, sameFs, builder, lab>>

\* new URL(url).origin, new URL(link, baseUrl): throws on an invalid URL
GlResolve(j) ==
    /\ At(j, "glResolve")
    /\ \/ Set(j, Ok(job[j]))
       \/ Set(j, GlThrown(job[j]))
    /\ UNCHANGED <<session, dirs, scratch, downloads, sameFs, builder, lab>>

\* ShouldClose of a close() at the end of the try body, not in finally
ShouldClose_OnSuccessOnly(open, err) == open /\ ~err

\* finally { if (browser) await browser.close() }
ShouldClose(open, err) == open

\* the finally block, then the pending exception or the return to
\* processMultiGallery and its check for an empty list of links
GlFinally(j) ==
    /\ At(j, "glFinally")
    /\ LET r == job[j]
           c == ShouldClose(r.browserOpen, r.glErr)
           r1 == IF c THEN [r EXCEPT !.closes = @ + 1, !.browserOpen = FALSE]
                 ELSE r
       IN \/ \* browser.close() rejects
             /\ c
             /\ Set(j, Thrown(r1))
          \/ IF r.glErr
             THEN Set(j, Thrown(r1))
             ELSE Set(j, CheckNonEmpty([r1 EXCEPT !.empty = (r.links = 0)],
                                       r.links))
    /\ UNCHANGED <<session, dirs, scratch, downloads, sameFs, builder, lab>>

(* ----------------------- processMultiGallery --------------------------- *)

\* galleries.push({name, urls}) after a successful extraction; the inner
\* catch only logs
PushGallery(g, i, ok) == IF ok THEN Append(g, i) ELSE g

\* LoopContinues of a loop that stops at the first failed extraction
LoopContinues_StopOnFailure(i, n, ok) == i < n /\ ok

\* whether the loop goes on after link i of n
LoopContinues(i, n, ok) == i < n

\* one iteration of the extraction loop: link idx + 1
ExtractLoop(j) ==
    /\ At(j, "extractLoop")
    /\ \E ok \in BOOLEAN :
        LET r == job[j]
            i == r.idx + 1
            r1 == [r EXCEPT !.idx = i,
                            !.outcome = Append(@, ok),
                            !.galleries = PushGallery(@, i, ok)]
        IN Set(j, IF LoopContinues(i, r.links, ok) THEN r1 ELSE Ok(r1))
    /\ UNCHANGED <<session, dirs, scratch, downloads, sameFs, builder, lab>>

\* ImageDownloader.downloadMultipleGalleries, one gallery a step: ok is
\* whether an image of the gallery was downloaded.  Its progress callback
\* edits the status message every time.  What it returns is discarded: the
\* handler goes on whatever was downloaded, and dl only records that the
\* downloader returned.
DownloadMulti(j) ==
    /\ At(j, "downloadMulti")
    /\ LET r == job[j] IN
        \/ /\ Len(r.imgs) < Len(r.galleries)
           /\ \E ok, editOk \in BOOLEAN :
                LET r1 == [r EXCEPT !.imgs = Append(@, ok)] IN
                Set(j, IF editOk THEN r1 ELSE ProgressEditRejected(r1))
        \/ /\ Len(r.imgs) = Len(r.galleries)
           /\ Set(j, Ok([Downloaded(r) EXCEPT !.dl = "some"]))
        \/ Set(j, Thrown([Downloaded(r) EXCEPT !.dl = "threw"]))
    /\ UNCHANGED <<session, dirs, scratch, downloads, sameFs, builder, lab>>

(* --------------------------- specification ----------------------------- *)

JobStep(j) ==
    \/ TelegramCall(j)
    \/ ExtractImages(j)
    \/ CreateTempDir(j)
    \/ Download(j)
    \/ Archive(j)
    \/ StatSync(j)
    \/ Rename(j)
    \/ ReplyLink(j)
    \/ DeleteMsg(j)
    \/ DeleteDir(j)
    \/ SetIdle(j)
    \/ CatchEdit(j)
    \/ CatchDeleteDir(j)
    \/ CatchDeleteFile(j)
    \/ CatchIdle(j)
    \/ BotCatch(j)
    \/ GlLaunch(j)
    \/ GlPage(j)
    \/ GlScroll(j)
    \/ GlEval(j)
    \/ GlResolve(j)
    \/ GlFinally(j)
    \/ ExtractLoop(j)
    \/ DownloadMulti(j)

Menu ==
    \/ Start
    \/ HearsSingle
    \/ HearsMulti
    \/ HearsRestart

User ==
    \/ Menu
    \/ \E url \in UrlKinds : OnText(url)

Next ==
    \/ User
    \/ \E j \in Jobs : JobStep(j)

Spec == Init /\ [][Next]_vars

\* every external call of a started job eventually returns or throws
FairSpec == Spec /\ \A j \in Jobs : WF_vars(JobStep(j))

\* Spec for the build with either ZipCreator
BuildSpec == BuildInit /\ [][Next]_vars

\* one more job: two jobs of one user run at once; scratch root and
\* downloads directory on one filesystem
ConcInit == Init /\ sameFs

ConcNext ==
    \/ Menu
    \/ \E url \in UrlKinds : OnTextConc(url)
    \/ \E j \in Jobs : JobStep(j)

ConcSpec == ConcInit /\ [][ConcNext]_vars

\* Spec with the last text message on record
TextNext ==
    \/ Menu
    \/ \E url \in UrlKinds : OnTextSeen(url)
    \/ \E j \in Jobs : JobStep(j)

TextSpec == Init /\ [][TextNext]_vars

(* ------------- index.js: the hourly cleanup of the scratch root -------- *)

\* the scratch directories that are older than the retention window: none
NoneOld == [k |-> "clean", old |-> {}]

CleanInit == InitOf({"7z"}) /\ lab = NoneOld

\* time passes: the scratch directory of job j is now older than the
\* retention window.  No stage of a job has a bound on its running time that
\* the window is chosen by.
Ages(j) ==
    /\ j \in dirs \ lab.old
    /\ lab' = [lab EXCEPT !.old = @ \cup {j}]
    /\ UNCHANGED <<session, job, dirs, scratch, downloads, sameFs, builder>>

\* the entries cleanupOldTempDirs removes from the scratch root: those older
\* than the retention window; it is called without arguments and knows of
\* no job
OldEntries(ds, old) == ds \cap old

\* setInterval(() => FileManager.cleanupOldTempDirs(), 60 * 60 * 1000): one
\* firing of the timer that finds something to remove.  The downloads
\* directory is not in the scratch root.
CleanupOldTempDirs ==
    /\ OldEntries(dirs, lab.old) # {}
    /\ dirs' = dirs \ OldEntries(dirs, lab.old)
    /\ lab' = [lab EXCEPT !.old = @ \ OldEntries(dirs, lab.old)]
    /\ UNCHANGED <<session, job, scratch, downloads, sameFs, builder>>

CleanNext ==
    \/ User
    \/ \E j \in Jobs : JobStep(j)
    \/ \E j \in Jobs : Ages(j)
    \/ CleanupOldTempDirs

\* Spec with the hourly cleanup running beside the jobs
CleanSpec == CleanInit /\ [][CleanNext]_vars

\* every external call returns or throws, and the timer keeps firing
CleanFairSpec ==
    /\ CleanSpec
    /\ \A j \in Jobs : WF_vars(JobStep(j))
    /\ WF_vars(CleanupOldTempDirs)

(* ------- PuppeteerScraper.extractGalleryLinks: the list of links ------- *)

Targets == 1..MaxTargets

\* a link as the code sees it: whether its text starts with 'http', whether
\* it is an absolute URL, and the page t it leads to when it is resolved
\* against the origin of the model page.  http and abs: 'http://site/t';
\* neither: '/t'; abs only: 'HTTP://site/t'; http only: 'http-t.html'.
Links == [kind : {"link"}, http : BOOLEAN, abs : BOOLEAN, t : Targets]

\* el.getAttribute(attribute): null, the empty string, a link, or text that
\* new URL() cannot resolve
AttrValues ==
    [kind : {"null", "empty", "bad"}, http : {FALSE}, abs : {FALSE}, t : {0}]
        \cup Links

SeqsUpTo(S, n) == UNION {[1..m -> S] : m \in 0..n}

\* .filter(link => link)
Truthy(v) == v.kind \notin {"null", "empty"}

galleryLinks(elements) == SelectSeq(elements, Truthy)

\* new URL(link, baseUrl).href
Href(v) == [kind |-> "link", http |-> TRUE, abs |-> TRUE, t |-> v.t]

\* the callback of galleryLinks.map: a link that starts with 'http' is
\* returned as it is, any other is resolved against baseUrl
ToAbsolute(v) == IF v.http THEN v ELSE Href(v)

absoluteLinks(links) == [i \in 1..Len(links) |-> ToAbsolute(links[i])]

\* [...new Set(absoluteLinks)]: the elements in insertion order
RECURSIVE uniqueLinks(_)
uniqueLinks(links) ==
    IF links = << >> THEN << >>
    ELSE LET rest == uniqueLinks(SubSeq(links, 1, Len(links) - 1))
             last == links[Len(links)]
         IN IF \E i \in 1..Len(rest) : rest[i] = last THEN rest
            ELSE Append(rest, last)

\* new URL(link, baseUrl) throws on text it cannot resolve
ResolveThrows(links) == \E i \in 1..Len(links) : links[i].kind = "bad"

LinksInit ==
    /\ InitOf({"7z"}) /\ sameFs
    /\ lab \in {[k |-> "links", pc |-> "call", elements |-> e, out |-> << >>] :
                  e \in SeqsUpTo(AttrValues, MaxElems)}

\* lines 647-668 of extractGalleryLinks applied to the matched elements
ExtractLinks ==
    /\ lab.k = "links" /\ lab.pc = "call"
    /\ LET g == galleryLinks(lab.elements) IN
        lab' = IF ResolveThrows(g) THEN [lab EXCEPT !.pc = "threw"]
               ELSE [lab EXCEPT !.pc = "returned",
                                !.out = uniqueLinks(absoluteLinks(g))]
    /\ UNCHANGED <<session, job, dirs, scratch, downloads, sameFs, builder>>

LinksSpec == LinksInit /\ [][ExtractLinks]_vars

(* ------------- ZipCreator: the size of what the archivers make ---------- *)

\* zipCreator.js: MAX_FILE_SIZE_MB
MAX_FILE_SIZE_MB == 45

\* createAndSplitIfNeeded: maxSizeBytes
maxSizeBytes == MAX_FILE_SIZE_MB * 1024 * 1024

\* sizes of the files, in bytes: four of the larger make 85% of their sum
\* exceed maxSizeBytes by less than a byte
FileSizes == {1, 13878211, 13878212}

FileEntries == [dir : {FALSE}, size : FileSizes, items : {<< >>}]

DirEntries == [dir : {TRUE}, size : {0},
               items : SeqsUpTo(FileEntries, MaxDirFiles)]

\* what readdir lists in the source directory
Trees == SeqsUpTo(FileEntries \cup DirEntries, MaxEntries)

\* getDirectorySize that does not descend into subdirectories
RECURSIVE getDirectorySize_TopLevelOnly(_)
getDirectorySize_TopLevelOnly(items) ==
    IF items = << >> THEN 0
    ELSE (IF Head(items).dir THEN 0 ELSE Head(items).size)
         + getDirectorySize_TopLevelOnly(Tail(items))

\* ZipCreator.getDirectorySize: the sizes of the files, subdirectories
\* included
RECURSIVE getDirectorySize(_)
getDirectorySize(items) ==
    IF items = << >> THEN 0
    ELSE (IF Head(items).dir THEN getDirectorySize(Head(items).items)
          ELSE Head(items).size)
         + getDirectorySize(Tail(items))

\* createAndSplitIfNeeded: estimatedSize * 0.85 > maxSizeBytes, both sides
\* times 20 (0.85 = 17 / 20; no product of 0.85 and a whole number of bytes
\* is within a rounding error of maxSizeBytes)
EnableSplit(estimatedSize) == 17 * estimatedSize > 20 * maxSizeBytes

\* the size of the archive the command makes of files of size total: images
\* do not compress, or they compress as createAndSplitIfNeeded estimates
Ratios == {"stored", "estimated"}

ArchivedSize(total, ratio) ==
    IF ratio = "stored" THEN total ELSE (17 * total) \div 20

\* zip -s 45m: volumes of MAX_FILE_SIZE_MB megabytes and the rest
RECURSIVE Volumes(_)
Volumes(size) ==
    IF size <= maxSizeBytes THEN <<size>>
    ELSE <<maxSizeBytes>> \o Volumes(size - maxSizeBytes)

\* the files of an archive by their extension: 0 is the one named by
\* outputPath (.zip, .7z), i >= 1 is .z01, .z02, ...
\* zip -s writes an archive of n volumes as .z01 ... .z(n-1) and, last, .zip
ZipWrites(n) == {0} \cup 1..(n - 1)

\* the place of a file among the n volumes of the archive, in the order of
\* their bytes
VolumeIndex(name, n) == IF name = 0 THEN n ELSE name

\* createZipWithCommand: the while (true) loop over .z01, .z02, ... that
\* ends at the first name that does not exist
RECURSIVE VolumesFrom(_, _)
VolumesFrom(disk, volumeIndex) ==
    IF volumeIndex \in disk
    THEN <<volumeIndex>> \o VolumesFrom(disk, volumeIndex + 1)
    ELSE << >>

\* createZipWithCommand: createdFiles, from what exists in outputDir
createdFiles(disk, enableSplit) ==
    IF enableSplit
    THEN (IF 0 \in disk THEN <<0>> ELSE << >>) \o VolumesFrom(disk, 1)
    ELSE (IF 0 \in disk THEN <<0>> ELSE << >>)

ArchiverInit ==
    /\ InitOf({"7z"}) /\ sameFs
    /\ lab \in {[k |-> "archive", pc |-> "call", by |-> "none", tree |-> t,
                  ratio |-> r, size |-> 0, split |-> FALSE, out |-> << >>,
                  disk |-> {}, files |-> << >>] :
                  t \in Trees, r \in Ratios}

\* zipCreator.js, createAndSplitIfNeeded up to the call of
\* createZipWithCommand
CreateAndSplitIfNeeded ==
    /\ lab.k = "archive" /\ lab.pc = "call"
    /\ LET estimatedSize == getDirectorySize(lab.tree) IN
        lab' = [lab EXCEPT !.pc = "zip", !.by = "zip",
                           !.size = estimatedSize,
                           !.split = EnableSplit(estimatedSize)]
    /\ UNCHANGED <<session, job, dirs, scratch, downloads, sameFs, builder>>

\* zipCreator.js, createZipWithCommand(sourceDir, outputPath, enableSplit):
\* zip fails on a directory without files
CreateZipWithCommand ==
    /\ lab.k = "archive" /\ lab.pc = "zip"
    /\ LET real == ArchivedSize(getDirectorySize(lab.tree), lab.ratio) IN
        lab' = IF real = 0 THEN [lab EXCEPT !.pc = "threw"]
               ELSE LET out == IF lab.split THEN Volumes(real) ELSE <<real>>
                        disk == ZipWrites(Len(out))
                    IN [lab EXCEPT !.pc = "returned", !.out = out,
                                   !.disk = disk,
                                   !.files = createdFiles(disk, lab.split)]
    /\ UNCHANGED <<session, job, dirs, scratch, downloads, sameFs, builder>>

\* part_000, createArchive: one 7z file whatever its size; 7z fails on a
\* directory without files
CreateArchive ==
    /\ lab.k = "archive" /\ lab.pc = "call"
    /\ LET real == ArchivedSize(getDirectorySize(lab.tree), lab.ratio) IN
        lab' = IF real = 0 THEN [lab EXCEPT !.pc = "threw", !.by = "7z"]
               ELSE [lab EXCEPT !.pc = "returned", !.by = "7z",
                                !.out = <<real>>, !.disk = {0},
                                !.files = <<0>>]
    /\ UNCHANGED <<session, job, dirs, scratch, downloads, sameFs, builder>>

ArchiverNext ==
    \/ CreateAndSplitIfNeeded
    \/ CreateZipWithCommand
    \/ CreateArchive

ArchiverSpec == ArchiverInit /\ [][ArchiverNext]_vars

(* ------- zipCreator.js: createZipWithCommand and the working directory --- *)

\* the directories the process may have been started in
HomeDirs == {"app", "root"}

\* sourceDir of a call: a scratch directory that exists, or one that does not
SourceDirs == {"gallery", "model", "missing"}

\* RestoredDir of a call without the finally block
RestoredDir_NotRestored(originalDir, cwd) == cwd

\* finally { process.chdir(originalDir) }: the working directory after it
RestoredDir(originalDir, cwd) == originalDir

\* execSync does not return to the event loop before zip has ended: while
\* the call is at it no other handler of the process runs
BlocksEventLoop(pc) == pc = "exec"

\* the process with its working directory; home: the directory it was
\* started in; pc, sourceDir, originalDir: a call of createZipWithCommand;
\* seen: the working directories the other jobs found when they ran
CwdInit ==
    /\ InitOf({"7z"}) /\ sameFs
    /\ lab \in {[k |-> "cwd", home |-> h, cwd |-> h, pc |-> "call",
                  sourceDir |-> d, originalDir |-> "none", calls |-> 1,
                  seen |-> {}] : h \in HomeDirs, d \in SourceDirs}

\* createZipWithCommand up to execSync: originalDir = process.cwd();
\* process.chdir(sourceDir), which throws on a directory that does not exist
ZipEnter ==
    /\ lab.k = "cwd" /\ lab.pc = "call"
    /\ lab' = IF lab.sourceDir = "missing"
              THEN [lab EXCEPT !.originalDir = lab.cwd, !.pc = "threw"]
              ELSE [lab EXCEPT !.originalDir = lab.cwd,
                               !.cwd = lab.sourceDir, !.pc = "exec"]
    /\ UNCHANGED <<session, job, dirs, scratch, downloads, sameFs, builder>>

\* execSync(command) returns or throws, and the finally block
ZipExec ==
    /\ lab.k = "cwd" /\ lab.pc = "exec"
    /\ \E ok \in BOOLEAN :
        lab' = [lab EXCEPT !.cwd = RestoredDir(lab.originalDir, lab.cwd),
                           !.pc = IF ok THEN "returned" ELSE "threw"]
    /\ UNCHANGED <<session, job, dirs, scratch, downloads, sameFs, builder>>

\* the next call of createZipWithCommand, at most MaxCalls in all
ZipAgain ==
    /\ lab.k = "cwd" /\ lab.pc \in {"returned", "threw"}
    /\ lab.calls < MaxCalls
    /\ \E d \in SourceDirs :
        lab' = [lab EXCEPT !.pc = "call", !.sourceDir = d,
                           !.originalDir = "none", !.calls = @ + 1]
    /\ UNCHANGED <<session, job, dirs, scratch, downloads, sameFs, builder>>

\* a handler of another job runs and resolves a relative path
OtherJobRuns ==
    /\ lab.k = "cwd" /\ ~BlocksEventLoop(lab.pc)
    /\ lab' = [lab EXCEPT !.seen = @ \cup {lab.cwd}]
    /\ UNCHANGED <<session, job, dirs, scratch, downloads, sameFs, builder>>

CwdNext ==
    \/ ZipEnter
    \/ ZipExec
    \/ ZipAgain
    \/ OtherJobRuns

CwdSpec == CwdInit /\ [][CwdNext]_vars

(* --------------------- bot.js: retryWithBackoff ------------------------ *)

\* retryWithBackoff(fn, maxRetries = 5, baseDelay = 1000): the default delay
baseDelay == 1000

\* the longest delay of a node timer, in ms (2^31 - 1)
TIMEOUT_MAX == 2147483647

\* what fn resolves with
Values == 1..MaxValues

\* the seconds a 'retry after N' error announces
RetryAfters == {1, 40}

\* what one invocation of fn does: it resolves with a value v, or it rejects
\* with an error whose message holds '429' or 'Too Many Requests' and no
\* delay ("429"), holds 'retry after v' ("retryAfter"), holds none of these
\* ("other"), or with an error without a message ("noMessage")
Outcomes ==
    [kind : {"ok"}, v : Values]
        \cup [kind : {"429", "other", "noMessage"}, v : {0}]
        \cup [kind : {"retryAfter"}, v : RetryAfters]

\* IsRateLimitError of a catch block that retries whatever fn threw
IsRateLimitError_Always(o) == TRUE

\* isRateLimitError: error.message && (includes('429') ||
\* includes('Too Many Requests') || includes('retry after'))
IsRateLimitError(o) == o.kind \in {"429", "retryAfter"}

\* attempt === maxRetries
LastAttempt(attempt, maxRetries) == attempt = maxRetries

\* the loop condition: attempt <= maxRetries
LoopGoesOn(attempt, maxRetries) == attempt <= maxRetries

RECURSIVE Pow2(_)
Pow2(n) == IF n = 0 THEN 1 ELSE 2 * Pow2(n - 1)

Max(a, b) == IF a >= b THEN a ELSE b

\* RetryDelay without the delay the error announces
RetryDelay_ExponentialOnly(attempt, o) == baseDelay * Pow2(attempt)

\* retryDelay: baseDelay * Math.pow(2, attempt), and at least the delay the
\* error announces when /retry after (\d+)/ matches its message
RetryDelay(attempt, o) ==
    IF o.kind = "retryAfter"
    THEN Max(baseDelay * Pow2(attempt), o.v * 1000)
    ELSE baseDelay * Pow2(attempt)

\* setTimeout(resolve, retryDelay): node sets a delay above TIMEOUT_MAX or
\* below 1 to 1 ms
TimerDelay(d) == IF d > TIMEOUT_MAX \/ d < 1 THEN 1 ELSE d

\* ReturnValue of a loop that awaits fn and does not return its value
ReturnValue_Undefined(v) == 0

\* return await fn(): what the call returns when fn resolved with v
\* (0: undefined)
ReturnValue(v) == v

\* a call of retryWithBackoff with maxRetries m; hist: the outcomes of the
\* invocations of fn so far
RetryInit ==
    /\ InitOf({"7z"}) /\ sameFs
    /\ lab \in {[k |-> "retry", pc |-> "call", maxRetries |-> m, attempt |-> 0,
                  hist |-> << >>, value |-> 0, delay |-> 0] :
                  m \in 0..MaxRetries}

\* one pass of the loop body: try { return await fn() } catch (error) {...}
Invoke ==
    /\ lab.k = "retry" /\ lab.pc = "call"
    /\ \E o \in Outcomes :
        LET l == [lab EXCEPT !.hist = Append(@, o)] IN
        lab' = IF o.kind = "ok"
               THEN [l EXCEPT !.pc = "returned", !.value = ReturnValue(o.v)]
               ELSE IF ~IsRateLimitError(o)
                       \/ LastAttempt(lab.attempt, lab.maxRetries)
               THEN [l EXCEPT !.pc = "threw"]
               ELSE [l EXCEPT !.pc = "wait",
                              !.delay = TimerDelay(RetryDelay(lab.attempt, o))]
    /\ UNCHANGED <<session, job, dirs, scratch, downloads, sameFs, builder>>

\* the timer of the wait fires: attempt++ and the loop condition; a loop
\* that ends returns undefined
Wake ==
    /\ lab.k = "retry" /\ lab.pc = "wait"
    /\ lab' = IF LoopGoesOn(lab.attempt + 1, lab.maxRetries)
              THEN [lab EXCEPT !.pc = "call", !.attempt = @ + 1]
              ELSE [lab EXCEPT !.pc = "returned", !.attempt = @ + 1,
                               !.value = 0]
    /\ UNCHANGED <<session, job, dirs, scratch, downloads, sameFs, builder>>

RetryNext ==
    \/ Invoke
    \/ Wake

RetrySpec == RetryInit /\ [][RetryNext]_vars

(* ------------------- bot.js: userSessions, several users ---------------- *)

\* ctx.from.id of the users that send updates
Users == 1..MaxUsers

\* SessionKey of a bot that keeps one session for everybody
SessionKey_Shared(userId) == 1

\* the key of the userSessions Map: getUserSession(ctx.from.id)
SessionKey(userId) == userId

\* getUserSession: the Map after the call, which adds { state: IDLE } under
\* a key the Map does not have ("absent")
getUserSession(m, userId) ==
    IF m[SessionKey(userId)] = "absent"
    THEN [m EXCEPT ![SessionKey(userId)] = STATE_IDLE]
    ELSE m

\* session.state of the object getUserSession returns
StateOf(m, userId) == getUserSession(m, userId)[SessionKey(userId)]

\* const session = this.getUserSession(ctx.from.id); session.state = s
SetState(m, userId, s) ==
    [getUserSession(m, userId) EXCEPT ![SessionKey(userId)] = s]

\* userSessions = new Map(); running[u]: the jobs of user u in progress;
\* actor, odd: the user whose update or job made the last step, and a mark
\* that changes at every step
UsersInit ==
    /\ InitOf({"7z"}) /\ sameFs
    /\ lab = [k |-> "users", userSessions |-> [u \in Users |-> "absent"],
              running |-> [u \in Users |-> 0], actor |-> 1, odd |-> FALSE]

\* a step of user u that leaves the Map as m and u's running jobs as n
UserStep(u, m, n) ==
    /\ lab.k = "users"
    /\ lab' = [lab EXCEPT !.userSessions = m, !.running[u] = n,
                          !.actor = u, !.odd = ~@]
    /\ UNCHANGED <<session, job, dirs, scratch, downloads, sameFs, builder>>

\* bot.start, bot.hears('Restart')
UserStart(u) ==
    UserStep(u, SetState(lab.userSessions, u, STATE_IDLE), lab.running[u])

\* bot.hears('Single Gallery')
UserHearsSingle(u) ==
    UserStep(u, SetState(lab.userSessions, u, STATE_WAITING_SINGLE_URL),
             lab.running[u])

\* bot.hears('Multi Gallery')
UserHearsMulti(u) ==
    UserStep(u, SetState(lab.userSessions, u, STATE_WAITING_MULTI_URL),
             lab.running[u])

\* bot.on('text') of user u, up to the first await of the job handler it
\* calls; at most MaxRunning jobs of one user run at a time
UserOnText(u, url) ==
    IF Waiting(StateOf(lab.userSessions, u)) /\ url = "supported"
    THEN /\ lab.running[u] < MaxRunning
         /\ UserStep(u, SetState(lab.userSessions, u, STATE_PROCESSING),
                     lab.running[u] + 1)
    ELSE UserStep(u, getUserSession(lab.userSessions, u), lab.running[u])

\* a job of user u ends: session.state = STATE.IDLE at the end of the try
\* block or of the catch block
UserJobEnds(u) ==
    /\ lab.k = "users" /\ lab.running[u] > 0
    /\ UserStep(u, SetState(lab.userSessions, u, STATE_IDLE),
                lab.running[u] - 1)

\* a job of user u throws out of its catch block: bot.catch
UserBotCatch(u) ==
    /\ lab.k = "users" /\ lab.running[u] > 0
    /\ UserStep(u, SetState(lab.userSessions, u, STATE_IDLE),
                lab.running[u] - 1)

UsersNext ==
    \E u \in Users :
        \/ UserStart(u)
        \/ UserHearsSingle(u)
        \/ UserHearsMulti(u)
        \/ \E url \in UrlKinds : UserOnText(u, url)
        \/ UserJobEnds(u)
        \/ UserBotCatch(u)

UsersSpec == UsersInit /\ [][UsersNext]_vars

(* ------------------------------- claims -------------------------------- *)

Ended(j) == job[j].pc = "done"

Ends(j) == job[j].pc # "done" /\ job'[j].pc = "done"

\* C1: a job that created a scratch directory has ended only when that
\* directory no longer exists, on every exit path.
C1_ScratchDirGoneAtEnd ==
    \A j \in Jobs : Ended(j) /\ job[j].tempDir => j \notin dirs

\* C2: a started job that has failed and has not ended yet is eventually
\* followed by the session being IDLE, also when the exception leaves the
\* handler and bot.catch deals with it.
C2_FailedJobLeadsToIdle ==
    \A j \in Jobs :
        (job[j].failed /\ ~Ended(j)) ~> (session = STATE_IDLE)

\* C2 witness: the exception of a failed stage left the catch block (the
\* error message could not be shown), bot.catch ran, the session is IDLE
C2_Witness ==
    \E j \in Jobs :
        /\ Ended(j) /\ job[j].failed /\ job[j].tempDir /\ ~job[j].errSent
        /\ session = STATE_IDLE

\* C3: a job that failed after its archiver wrote a file and before the file
\* was relocated leaves no such file in the scratch root when it ends.
C3_NoArchiveLeftAfterFailure ==
    \A j \in Jobs :
        Ended(j) /\ job[j].wrote # 0 /\ job[j].moved # "ok"
            => scratch[job[j].wrote] = "none"

\* the pipeline stage a position of the handler belongs to; a status-message
\* edit belongs to the stage it announces
StageOf(p) ==
    CASE p = "idle" -> "none"
      [] p = "reply0" -> "start"
      [] p \in {"editOpen"} \cup GlPcs -> "links"
      [] p \in {"editExtract", "extractImages", "editFoundG", "extractLoop"}
            -> "images"
      [] p \in {"editFound", "editComplete", "createTempDir", "download",
                "downloadMulti"} -> "download"
      [] p \in {"editArchive", "archive"} -> "archive"
      [] p \in {"editLink", "statSync", "rename", "replyLink", "deleteMsg"}
            -> "publish"
      [] p = "deleteDir" -> "cleanup"
      [] p \in {"setIdle", "replyReady"} -> "idle"
      [] p \in {"catchEdit", "catchDeleteDir", "catchDeleteFile", "catchIdle",
                "botCatch"} -> "failure"
      [] p = "done" -> "end"

\* StageOf as a table over the positions of the handlers
Pcs ==
    {"idle"} \cup {SinglePath[i] : i \in 1..Len(SinglePath)}
             \cup {MultiPath[i] : i \in 1..Len(MultiPath)}
             \cup {CatchPath[i] : i \in 1..Len(CatchPath)}
             \cup {BotCatchPath[i] : i \in 1..Len(BotCatchPath)}

StageAt == [p \in Pcs |-> StageOf(p)]

\* the order of the stages the claim states
StageOrder(m) ==
    IF m = "single"
    THEN <<"none", "start", "images", "download", "archive", "publish",
           "cleanup", "idle", "end">>
    ELSE <<"none", "start", "links", "images", "download", "archive",
           "publish", "cleanup", "idle", "end">>

\* the stage that follows stage a in that order ("end": none follows)
NextStage(m, a) ==
    IF InPath(StageOrder(m), a) /\ a # "end" THEN After(StageOrder(m), a)
    ELSE "end"

\* C4: the stages of a job occur only in the order extract links (multi
\* mode), extract images, download, archive, publish, delete the scratch
\* directory, session IDLE; the next stage is entered only by a job in which
\* no exception reached the handler, and after such an exception the job is
\* on its failure path and enters no stage any more.
C4_StageOrder ==
    [][\A j \in Jobs :
         LET a == StageAt[job[j].pc]
             b == StageAt[job'[j].pc]
         IN job'[j].pc # job[j].pc /\ a # b =>
              \/ /\ a \notin {"failure", "end"}
                 /\ b = NextStage(job'[j].mode, a)
                 /\ ~job'[j].failed
              \/ /\ b = "failure"
                 /\ a \notin {"none", "end"}
                 /\ job'[j].failed
              \/ /\ a = "failure"
                 /\ b = "end"]_vars

\* C4 witness: a multi-gallery job went through every stage and ended
C4_Witness ==
    \E j \in Jobs :
        Ended(j) /\ ~job[j].failed /\ job[j].mode = "multi" /\ job[j].linkSent

\* C5: a job whose extraction returned nothing (no image URL in single mode,
\* no gallery link in multi mode) has failed, and when it ends the
\* downloader was never invoked, no scratch directory was ever created, and
\* its last step leaves the session IDLE.
C5_EmptyResultFailsEarly ==
    [][\A j \in Jobs :
         Ends(j) /\ job'[j].empty =>
            /\ job'[j].failed
            /\ job'[j].dl = "no"
            /\ ~job'[j].tempDir
            /\ j \notin dirs'
            /\ session' = STATE_IDLE]_vars

\* C5 witness: a job ended after an extraction that returned nothing
C5_Witness ==
    \E j \in Jobs : Ended(j) /\ job[j].empty /\ job[j].failed

\* C6: a single-gallery job whose downloader reported zero successful
\* downloads ends with no archive created, no download link sent, its
\* scratch directory deleted and the session IDLE.
C6_ZeroDownloadsFailCleanly ==
    [][\A j \in Jobs :
         /\ Ends(j)
         /\ job'[j].mode = "single"
         /\ job'[j].dl = "zero"
         => /\ job'[j].wrote = 0
            /\ job'[j].archivePath = 0
            /\ ~job'[j].linkSent
            /\ j \notin dirs'
            /\ session' = STATE_IDLE]_vars

\* the links among the first k whose extraction succeeded, in link order
RECURSIVE OkLinks(_, _)
OkLinks(o, k) ==
    IF k = 0 THEN << >>
    ELSE IF o[k] THEN Append(OkLinks(o, k - 1), k) ELSE OkLinks(o, k - 1)

\* C7: in multi-gallery mode a failed extraction of one link does not end
\* the job: while links remain the job is in the extraction loop and has not
\* failed, the galleries collected so far are the links whose extraction
\* succeeded, in link order, and when the downloader is invoked every link
\* has been tried.
C7_FailedExtractionIsSkipped ==
    \A j \in Jobs :
        LET r == job[j] IN
        r.mode = "multi" =>
            /\ r.galleries = OkLinks(r.outcome, Len(r.outcome))
            /\ Len(r.outcome) \notin {0, r.links}
                   => r.pc = "extractLoop" /\ ~r.failed
            /\ r.pc \in {"editComplete", "createTempDir", "downloadMulti"}
                   => Len(r.outcome) = r.links /\ r.links > 0

\* C7 witness: a job in which the extraction of the first link failed and
\* that of the second succeeded sent its download link and ended in success
C7_Witness ==
    \E j \in Jobs :
        /\ Ended(j) /\ ~job[j].failed /\ job[j].linkSent /\ job[j].dl = "some"
        /\ job[j].outcome = <<FALSE, TRUE>>
        /\ job[j].galleries = <<2>>

\* C8: once a job has moved its archive into the downloads directory, no
\* step of that job removes the file from there, the steps of its catch
\* block included.
C8_PublishedFileIsKept ==
    [][\A j \in Jobs :
         job[j].moved = "ok" /\ job'[j] # job[j] =>
            downloads'[job[j].archivePath] = downloads[job[j].archivePath]]_vars

\* C8 witness: a job failed after the relocation, its catch block ran to the
\* end, and the relocated file is there
C8_Witness ==
    \E j \in Jobs :
        /\ Ended(j) /\ job[j].moved = "ok" /\ job[j].failed /\ job[j].errSent
        /\ downloads[job[j].archivePath] = "full"

\* C9: moveToDownloads relocates the archive also when the scratch root and
\* the downloads directory are on different filesystems, and whenever it has
\* removed the source the file is in the downloads directory.
C9_MoveAcrossFilesystems ==
    \A j \in Jobs :
        /\ ~sameFs /\ job[j].moved # "no" => job[j].moved = "ok"
        /\ job[j].moved = "ok" => downloads[job[j].archivePath] # "none"

\* C10: a browser that extractGalleryLinks launched is closed exactly once
\* before the call returns or throws, whichever step failed; no browser is
\* closed that was not launched, and none is open outside the call.
C10_BrowserClosedOnce ==
    \A j \in Jobs :
        /\ job[j].closes <= job[j].launches
        /\ job[j].browserOpen => job[j].pc \in GlPcs
        /\ job[j].launches = 1 /\ job[j].pc \notin GlPcs
               => job[j].closes = 1 /\ ~job[j].browserOpen

\* C10 witness: a step after the launch threw, and the call has been left
\* with the browser closed
C10_Witness ==
    \E j \in Jobs :
        /\ job[j].launches = 1 /\ job[j].glErr /\ job[j].pc \notin GlPcs
        /\ job[j].closes = 1

\* C11: autoScroll terminates on every page: a job that is in autoScroll
\* eventually leaves it, also when the document grows by at least the scroll
\* distance at every scroll.
C11_AutoScrollTerminates ==
    \A j \in Jobs : (job[j].pc = "glScroll") ~> (job[j].pc # "glScroll")

\* the absolute URL of the page a link leads to
AbsoluteUrl(v) == [kind |-> "link", http |-> TRUE, abs |-> TRUE, t |-> v.t]

\* C12: the list extractGalleryLinks returns has no duplicates, holds only
\* absolute URLs, holds the resolved link of every matched element that has
\* a non-empty attribute and nothing else, each once, in the order in which
\* the links are first seen.
C12_LinksUniqueAbsoluteInOrder ==
    lab.k = "links" /\ lab.pc = "returned" =>
        LET e == lab.elements
            out == lab.out
            given == {i \in 1..Len(e) : e[i].kind = "link"}
            FirstOf(x) == CHOOSE i \in given :
                             /\ AbsoluteUrl(e[i]) = x
                             /\ \A k \in given : AbsoluteUrl(e[k]) = x => i <= k
        IN /\ \A i, k \in 1..Len(out) : i < k => out[i] # out[k]
           /\ \A i \in 1..Len(out) : out[i].abs
           /\ {out[i] : i \in 1..Len(out)} = {AbsoluteUrl(e[i]) : i \in given}
           /\ \A i, k \in 1..Len(out) : i < k => FirstOf(out[i]) < FirstOf(out[k])

\* C13: the archiver returns to the handler only with an output file that
\* exists: when it has returned, what it returned is not an empty list and
\* the archive is in the scratch root.
C13_ArchiverReturnsWithFile ==
    [][\A j \in Jobs :
         job[j].pc = "archive" /\ job'[j].pc = "editLink" =>
            /\ job'[j].vols >= 1
            /\ scratch'[job'[j].archivePath] # "none"]_vars

\* the files under a directory, those of its subdirectories included
RECURSIVE FilesUnder(_)
FilesUnder(tree) ==
    IF tree = << >> THEN << >>
    ELSE (IF Head(tree).dir THEN FilesUnder(Head(tree).items)
          ELSE <<Head(tree)>>) \o FilesUnder(Tail(tree))

RECURSIVE TotalBytes(_)
TotalBytes(files) ==
    IF files = << >> THEN 0 ELSE files[1].size + TotalBytes(Tail(files))

C15_NoFileAboveCap ==
    lab.k = "archive" /\ lab.pc = "returned" =>
        \A i \in 1..Len(lab.out) : lab.out[i] <= 45 * 1024 * 1024

\* C16: two jobs never publish under one file name: when moveToDownloads
\* moves an archive into the downloads directory, no job has published
\* under that name and no file of that name is there.
C16_PublishedNamesDiffer ==
    [][\A j \in Jobs :
         job[j].pc = "rename" /\ job'[j].moved = "ok" =>
            /\ downloads[job[j].archivePath] = "none"
            /\ \A k \in Jobs \ {j} :
                  job[k].moved = "ok" => job[k].archivePath # job[j].archivePath]_vars

\* C17: a job whose archiver returned several volumes publishes them: with
\* the volumes in the scratch root sendDownloadLink does not fail on them, a
\* job that ends without a failure has moved them to the downloads directory
\* and sent the link, and when the job ends none of them is left in the
\* scratch root.
C17_VolumesArePublished ==
    [][\A j \in Jobs :
         LET r == job[j]
             q == job'[j]
         IN /\ r.pc = "statSync" /\ r.vols > 1 /\ q # r
                  /\ scratch[r.archivePath] # "none" => ~q.failed
            /\ Ends(j) /\ q.vols > 1 /\ ~q.failed =>
                  q.moved = "ok" /\ q.linkSent
            /\ Ends(j) /\ q.vols > 1 => scratch'[q.archivePath] = "none"]_vars

\* a job that has started and has not ended
Running(r) == r.pc \notin {"idle", "done"}

\* the positions a running job at p may be at after a step of its own: at p
\* (a loop), after p, in the handler of an exception thrown at p, and in the
\* finally block of extractGalleryLinks after an exception inside it
OwnSuccessors(m, p) ==
    {p, NextPc(m, p), HandlerOf(p)}
        \cup (IF p \in GlPcs THEN {"glFinally"} ELSE {})

\* OwnSuccessors as a table over the modes and the positions of their
\* handlers
SuccessorsAt ==
    [m \in {"single", "multi"} |->
        [p \in {q \in Pcs \ {"idle", "done"} :
                   \/ InPath(CatchPath, q) \/ InPath(BotCatchPath, q)
                   \/ InPath(IF m = "single" THEN SinglePath ELSE MultiPath, q)}
            |-> OwnSuccessors(m, p)]]

\* C18: no user action aborts a running job or makes it skip a stage:
\* whatever the session state, a running job can take its next step; a
\* running job only ever moves to a position its own handler leads to from
\* where it is, in the mode it started in; and a step that is not a step of
\* a job (Restart, /start, a mode button, a text message) leaves the scratch
\* directories and the archive files as they are.
C18_UserActionsDoNotAbort ==
    /\ [](\A j \in Jobs : Running(job[j]) => ENABLED JobStep(j))
    /\ [][/\ \A j \in Jobs :
              Running(job[j]) /\ job'[j] # job[j] =>
                 /\ job[j].pc \in DOMAIN SuccessorsAt[job[j].mode]
                 /\ job'[j].pc \in SuccessorsAt[job[j].mode][job[j].pc]
                 /\ job'[j].mode = job[j].mode
          /\ job' = job => UNCHANGED <<dirs, scratch, downloads>>]_vars

\* C18 witness: the user pressed a button while the job was running (the
\* session is no longer PROCESSING before the job set it), and the job has
\* moved its archive and sent the download link
C18_Witness ==
    \E j \in Jobs :
        /\ job[j].pc = "deleteMsg" /\ job[j].linkSent /\ ~job[j].failed
        /\ job[j].moved = "ok" /\ downloads[job[j].archivePath] = "full"
        /\ session # STATE_PROCESSING

DownloadPcs == {"download", "downloadMulti"}

\* C19: a rejected progress edit of a running download does not make the
\* download or the job fail and does not change the counts: the step whose
\* edit is rejected records the attempt like any other and leaves the job in
\* the download, not failed; and a download that returns after a rejected
\* edit returns the number of successful attempts (single mode: the job
\* fails exactly when that number is zero; multi mode: the job goes on).
C19_ProgressEditFailureIsHarmless ==
    [][\A j \in Jobs :
         LET r == job[j]
             q == job'[j]
         IN /\ q.editRejected => r.pc \in DownloadPcs /\ q.pc = r.pc /\ ~q.failed
            /\ q.editRejected /\ ~r.editRejected =>
                  /\ Len(q.imgs) = Len(r.imgs) + 1
                  /\ \A i \in 1..Len(r.imgs) : q.imgs[i] = r.imgs[i]
            /\ r.editRejected /\ q.pc # r.pc /\ q.dl # "threw" =>
                  IF r.pc = "download"
                  THEN /\ Len(r.imgs) = r.found
                       /\ q.failed <=> SuccessCount(r.imgs) = 0
                       /\ ~q.failed => q.success = SuccessCount(r.imgs)
                  ELSE /\ Len(r.imgs) = Len(r.galleries)
                       /\ ~q.failed /\ q.pc = "editArchive"]_vars

\* C19 witness: every attempt of a single-gallery download has been made, one
\* succeeded and one failed, a progress edit was rejected, and the job is in
\* the download and has not failed
C19_Witness ==
    \E j \in Jobs :
        /\ job[j].pc = "download" /\ job[j].editRejected /\ ~job[j].failed
        /\ job[j].found = 2 /\ job[j].imgs = <<TRUE, FALSE>>

\* the text handler has just been given a text it rejects
TextRejected ==
    /\ lab' # lab
    /\ lab'.k = "text"
    /\ lab'.url \in {"nohttp", "unsupported"}
    /\ Waiting(session)

\* C20: a text that validation rejects while the session waits for a URL
\* (not starting with 'http', or a URL of an unsupported site) starts no job,
\* creates no scratch directory and leaves the session waiting in the same
\* mode.
C20_RejectedTextChangesNothing ==
    [][TextRejected =>
          /\ session' = session
          /\ started' = started
          /\ UNCHANGED <<job, dirs, scratch, downloads>>]_vars

\* C20 witness: the last text was a URL of an unsupported site, sent in
\* multi-gallery mode; the session still waits for a URL in that mode and no
\* job has started
C20_Witness ==
    /\ lab.k = "text"
    /\ lab.url = "unsupported"
    /\ session = STATE_WAITING_MULTI_URL
    /\ started = 0
    /\ dirs = {}

\* C21: every archive published into the downloads directory is eventually
\* removed from it.
C21_PublishedArchiveExpires ==
    \A n \in Names : (downloads[n] # "none") ~> (downloads[n] = "none")

\* C29: the cleanup of the scratch root never removes the scratch directory
\* or the archive of a job that is in progress: while a job runs, its
\* scratch directory and the archive it wrote disappear from the scratch
\* root only in a step of that job.
C29_CleanupSparesRunningJobs ==
    [][\A j \in Jobs :
         Running(job[j]) /\ job'[j] = job[j] =>
            /\ j \in dirs => j \in dirs'
            /\ job[j].wrote # 0 /\ job[j].moved # "ok"
                  => scratch'[job[j].wrote] = scratch[job[j].wrote]]_vars

\* the text handler has just been given a text
TextHandled == lab' # lab /\ lab'.k = "text"

\* C22: a text message starts a job only if the session state is
\* WAITING_SINGLE_URL or WAITING_MULTI_URL when it is handled, and the job
\* it starts is a single-gallery job in the first state and a multi-gallery
\* job in the second; a text handled in state IDLE or PROCESSING starts no
\* job and changes nothing.
C22_TextStartsJobOnlyWhenWaiting ==
    [][TextHandled =>
          /\ job' # job =>
                /\ session \in {STATE_WAITING_SINGLE_URL, STATE_WAITING_MULTI_URL}
                /\ started' = started + 1
                /\ \A j \in Jobs :
                      job'[j] # job[j] =>
                         /\ job[j].pc = "idle" /\ job'[j].pc = "reply0"
                         /\ session = STATE_WAITING_SINGLE_URL
                                => job'[j].mode = "single"
                         /\ session = STATE_WAITING_MULTI_URL
                                => job'[j].mode = "multi"
          /\ session \in {STATE_IDLE, STATE_PROCESSING} =>
                UNCHANGED <<session, job, dirs, scratch, downloads>>]_vars

\* C22 witness: a URL sent after the Multi Gallery button has started a
\* multi-gallery job
C22_Witness ==
    /\ lab.k = "text"
    /\ lab.url = "supported"
    /\ session = STATE_PROCESSING
    /\ \E j \in Jobs : job[j].pc = "reply0" /\ job[j].mode = "multi"

\* C23: at most one job of the user is in progress at any time.
C23_OneJobAtATime ==
    Cardinality({j \in Jobs : Running(job[j])}) <= 1

\* C24: the session state is PROCESSING whenever a job is running, and a
\* step of a job does not overwrite a state the user has set since the job
\* started: it changes the session state only from PROCESSING.
C24_SessionTracksJob ==
    /\ [](\A j \in Jobs : Running(job[j]) => session = STATE_PROCESSING)
    /\ [][\A j \in Jobs :
            Running(job[j]) /\ job'[j] # job[j] /\ session' # session
                => session = STATE_PROCESSING]_vars

\* C25: a job reports one terminal outcome, the download link or an error
\* message, never both: no error message is shown for a job whose download
\* link was sent, and a job that ended without a link has failed.
C25_OneTerminalOutcome ==
    \A j \in Jobs :
        /\ ~(job[j].linkSent /\ job[j].errSent)
        /\ Ended(j) /\ ~job[j].linkSent => job[j].failed

\* the status-message edits at the stage boundaries
BoundaryEdits ==
    {"editExtract", "editFound", "editOpen", "editFoundG", "editComplete",
     "editArchive", "editLink"}

\* C26: a failed edit of the status message at a stage boundary does not
\* make the job fail: a job that is not failed is not failed after the step
\* of such an edit, whatever Telegram answers.
C26_StatusEditFailureIsHarmless ==
    [][\A j \in Jobs :
         job[j].pc \in BoundaryEdits /\ ~job[j].failed => ~job'[j].failed]_vars

\* C27: a multi-gallery job goes on to archive and publish only if an image
\* was downloaded: when the downloader returns and every gallery's download
\* failed, the job fails; and a job in which no gallery was extracted
\* writes no archive and sends no link.
C27_MultiPublishesOnlyImages ==
    [][\A j \in Jobs :
         LET r == job[j]
             q == job'[j]
         IN /\ r.pc = "downloadMulti" /\ q.pc # r.pc /\ q.dl # "threw"
                  /\ r.imgs # << >> /\ SuccessCount(r.imgs) = 0 => q.failed
            /\ q.mode = "multi" /\ q.galleries = << >> /\ ~q.failed
                  => q.wrote = 0 /\ ~q.linkSent]_vars

\* C28: the download-link message is sent only after the archive was moved
\* into the downloads directory: the step that sends it finds the archive
\* there; and a job whose move failed takes its failure path at once and
\* never sends a link.
C28_LinkOnlyAfterMove ==
    [][\A j \in Jobs :
         LET r == job[j]
             q == job'[j]
         IN /\ q.linkSent /\ ~r.linkSent =>
                  /\ r.moved = "ok"
                  /\ downloads[r.archivePath] # "none"
            /\ r.pc = "rename" /\ q.pc # r.pc /\ q.moved # "ok" =>
                  q.failed /\ q.pc = "catchEdit"
            /\ q.moved \in {"exdev", "error"} => q.failed /\ ~q.linkSent]_vars

\* C28 witness: the link has just been sent for an archive that lies in the
\* downloads directory and no longer in the scratch root
C28_Witness ==
    \E j \in Jobs :
        /\ job[j].pc = "deleteMsg" /\ job[j].linkSent /\ job[j].moved = "ok"
        /\ downloads[job[j].archivePath] = "full"
        /\ scratch[job[j].archivePath] = "none"
        /\ session = STATE_PROCESSING

\* C30: retryWithBackoff invokes fn at most maxRetries + 1 times; no
\* invocation follows one that succeeded; and when the call returns it
\* returns the value of the successful invocation, which is the last one.
C30_RetryBounded ==
    lab.k = "retry" =>
        LET n == Len(lab.hist) IN
        /\ n <= lab.maxRetries + 1
        /\ \A i \in 1..(n - 1) : lab.hist[i].kind # "ok"
        /\ lab.pc = "returned" =>
              /\ n >= 1
              /\ lab.hist[n].kind = "ok"
              /\ lab.value = lab.hist[n].v

\* C30 witness: a call with the default maxRetries whose sixth invocation
\* of fn succeeded after five rate-limit errors, returning its value
C30_Witness ==
    /\ lab.k = "retry" /\ lab.pc = "returned"
    /\ lab.maxRetries = 5 /\ Len(lab.hist) = 6
    /\ lab.hist[6] = [kind |-> "ok", v |-> 2] /\ lab.value = 2

\* the step is an invocation of fn by retryWithBackoff
Invoked == lab.k = "retry" /\ lab'.k = "retry"
           /\ Len(lab'.hist) = Len(lab.hist) + 1

\* the outcome of the invocation the step made
LastOutcome == lab'.hist[Len(lab'.hist)]

\* C31: retryWithBackoff retries only rate-limit errors.  Every invocation
\* that was followed by another one failed with a rate-limit error; an
\* invocation that fails with any other error ends the call at once with
\* that error thrown, no wait set; a rate-limit error at attempt maxRetries
\* is thrown too; a call that has ended never invokes fn again; and a call
\* that returned did so with a successful invocation.
C31_OnlyRateLimitRetried ==
    /\ [](lab.k = "retry" =>
            LET n == Len(lab.hist) IN
            /\ \A i \in 1..(n - 1) : lab.hist[i].kind \in {"429", "retryAfter"}
            /\ lab.pc = "threw" =>
                  /\ n >= 1 /\ lab.hist[n].kind # "ok"
                  /\ lab.hist[n].kind \in {"429", "retryAfter"}
                        => n = lab.maxRetries + 1
            /\ lab.pc = "returned" => n >= 1 /\ lab.hist[n].kind = "ok"
            /\ lab.pc \in {"call", "wait"} => n <= lab.maxRetries)
    /\ [][/\ Invoked /\ LastOutcome.kind \in {"other", "noMessage"}
              => lab'.pc = "threw" /\ lab'.delay = lab.delay
          /\ Invoked /\ LastOutcome.kind \in {"429", "retryAfter"}
                     /\ lab.attempt = lab.maxRetries
              => lab'.pc = "threw" /\ lab'.delay = lab.delay
          /\ lab.k = "retry" /\ lab.pc \in {"threw", "returned"}
              => lab' = lab]_vars

\* C31 witness: a call that threw the other error of its third invocation,
\* after two rate-limit errors, with retries left
C31_Witness ==
    /\ lab.k = "retry" /\ lab.pc = "threw"
    /\ Len(lab.hist) = 3 /\ lab.maxRetries = 5
    /\ lab.hist[3].kind = "other"

\* C32: the wait before retry number k (k = 0 for the first retry) is the
\* larger of baseDelay * 2^k ms and 1000 times the seconds the error
\* announced, so it is shorter than neither.
C32_WaitIsMaxOfBoth ==
    lab.k = "retry" /\ lab.pc = "wait" =>
        LET e == lab.hist[Len(lab.hist)]
            k == lab.attempt
            announced == IF e.kind = "retryAfter" THEN 1000 * e.v ELSE 0
        IN  /\ k = Len(lab.hist) - 1
            /\ lab.delay >= 1000 * 2^k
            /\ lab.delay >= announced
            /\ lab.delay \in {1000 * 2^k, announced}

\* C32 witness: the wait before the third retry after an error announcing
\* 40 seconds, which is longer than the exponential delay of 4000 ms
C32_Witness ==
    /\ lab.k = "retry" /\ lab.pc = "wait" /\ lab.attempt = 2
    /\ lab.hist[3] = [kind |-> "retryAfter", v |-> 40]
    /\ lab.delay = 40000

\* C33: the list createZipWithCommand returns for an archive of several
\* volumes holds every volume that was created and nothing else, each once,
\* in the order of the volumes, so that the files joined in list order are
\* the archive.
C33_VolumeListInOrder ==
    lab.k = "archive" /\ lab.by = "zip" /\ lab.pc = "returned"
        /\ Len(lab.out) >= 2 =>
        LET n == Len(lab.out) IN
        /\ {lab.files[i] : i \in 1..Len(lab.files)} = lab.disk
        /\ Len(lab.files) = Cardinality(lab.disk)
        /\ \A i, j \in 1..Len(lab.files) :
              i < j => VolumeIndex(lab.files[i], n) < VolumeIndex(lab.files[j], n)

\* C34: a step made for user A - a handler of an update A sent, or a job of
\* A - leaves the session entry and the jobs of every other user as they
\* were.
C34_SessionsAreIsolated ==
    [][lab.k = "users" /\ lab' # lab =>
          \A b \in Users \ {lab'.actor} :
              /\ lab'.userSessions[b] = lab.userSessions[b]
              /\ lab'.running[b] = lab.running[b]]_vars

\* C34 witness: user 2 has just chosen a mode while a job of user 1 runs,
\* and user 1 is still in PROCESSING
C34_Witness ==
    /\ lab.k = "users" /\ lab.actor = 2
    /\ lab.userSessions[1] = STATE_PROCESSING /\ lab.running[1] = 1
    /\ lab.userSessions[2] = STATE_WAITING_MULTI_URL

\* C35: createZipWithCommand leaves the working directory of the process as
\* it was: outside the execSync call, a failed compression or a failed
\* chdir included, the working directory is the one the process had before
\* the call, and no other job ever finds a different one.
C35_WorkingDirectoryRestored ==
    lab.k = "cwd" =>
        /\ lab.pc # "exec" => lab.cwd = lab.home
        /\ lab.seen \subseteq {lab.home}

\* C35 witness: a call whose compression failed has ended, after another
\* call; the working directory is restored and another job has run since
C35_Witness ==
    /\ lab.k = "cwd" /\ lab.pc = "threw" /\ lab.calls = 2
    /\ lab.sourceDir = "gallery" /\ lab.originalDir = lab.home
    /\ lab.cwd = lab.home /\ lab.seen = {lab.home}


=============================================================================
